---------------------------- MODULE Spec2Model ----------------------------
(* Thread-pool Sudoku validator (src/sudoku.c): the main thread, the worker   *)
(* threads, the linked-list task queue protected by one mutex and one         *)
(* condition variable, the task heap and the board validator.                 *)
EXTENDS Integers, Sequences, FiniteSets, TLC

(* ------------------------------ bounds ---------------------------------- *)
\* largest worker count given on the command line (argv[1])
MaxWorkers == 2
\* largest board count typed at the prompt
MaxBoards == 2
\* the same two bounds for the runs explored under fair scheduling
LiveWorkers == 2
LiveBoards == 1
\* largest cell value of the boards handed to the validator on its own
MaxValue == 10

(* ------------------------- program constants ---------------------------- *)
\* int worker_count = 4;
DefaultWorkers == 4
\* the NULL pointer: no node, no task (the sentinel)
NULL == 0
\* identity of the main thread; workers[k] is thread k+1
MainThread == 0
\* side of the board and of a block
N == 9
B == 3

VARIABLES
    worker_count,   \* global int worker_count
    workers,        \* global pthread_t *workers: "null", "alloc", "freed"
    qstate,         \* queue's mutex+cond: "uninit", "ready", "destroyed"
    head, tail,     \* queue.head, queue.tail (node pointers)
    nodes,          \* heap of task_node_t: pointer -> [task, next, live]
    heap,           \* heap of board_task_t: pointer -> [id, board, frees]
    mutex,          \* set of threads inside queue.mutex
    mpc,            \* main's position
    i,              \* main's loop variable (i, or w on the failure path)
    board_count,    \* main's board_count
    board,          \* main's local board[9][9] (as edits of the solved grid)
    task,           \* main's local task pointer
    arg,            \* enqueue_task's parameter task
    node,           \* enqueue_task's local node
    ret,            \* where enqueue_task returns to: "submit" or "sentinels"
    failed,         \* main is on the read-failure path (lines 272-278)
    status,         \* "running", "exit 0", "exit 1", or "killed" (a fault)
    wpc,            \* each worker's position
    wnode,          \* dequeue_task's local node, per worker
    wtask,          \* worker_loop's local task, per worker
    enqLog,         \* history: entries appended, in order of append
    deqLog,         \* history: entries removed, in order of removal
    results         \* history: lines printed by the workers, in order

vars == <<worker_count, workers, qstate, head, tail, nodes, heap,
          mutex, mpc, i, board_count, board, task, arg, node, ret, failed,
          status, wpc, wnode, wtask, enqLog, deqLog, results>>

mainLocals == <<i, board_count, board, task, arg, node, ret, failed>>
queueVars  == <<head, tail, nodes>>
workerVars == <<wpc, wnode, wtask>>
history    == <<enqLog, deqLog, results>>

(* ------------------------------ boards ---------------------------------- *)
\* the canonical solved grid
SolvedBoard ==
    << <<5,3,4,6,7,8,9,1,2>>,
       <<6,7,2,1,9,5,3,4,8>>,
       <<1,9,8,3,4,2,5,6,7>>,
       <<8,5,9,7,6,1,4,2,3>>,
       <<4,2,6,8,5,3,7,9,1>>,
       <<7,1,3,9,2,4,8,5,6>>,
       <<9,6,1,5,3,7,2,8,4>>,
       <<2,8,7,4,1,9,6,3,5>>,
       <<3,4,5,2,8,6,1,7,9>> >>

\* board b with cell (r, c) (1-based) set to v
SetCell(b, r, c, v) == [b EXCEPT ![r][c] = v]

\* A board is held in the state as the list of cell edits <<r, c, v>> that
\* turn the solved grid into it; BoardOf gives its 9x9 grid of integers.
RECURSIVE BoardOf(_)
BoardOf(edits) ==
    IF edits = <<>> THEN SolvedBoard
    ELSE LET e == edits[Len(edits)]
         IN  SetCell(BoardOf(SubSeq(edits, 1, Len(edits) - 1)), e[1], e[2], e[3])

\* the solved grid, and the solved grid with a zero at row 4, column 7
Solved == <<>>
ZeroAt47 == << <<4, 7, 0>> >>

\* the board typed at the prompt as board k in the pool runs: the solved grid
\* for an odd k, the faulty one for an even k
PoolBoards(k) == IF k % 2 = 1 THEN {Solved} ELSE {ZeroAt47}

(* ----------------------------- validator -------------------------------- *)
\* what snprintf writes into reason: the format and its arguments
Reason(fmt, args) == [fmt |-> fmt, args |-> args]

NoFault == Reason("", <<>>)

\* the reason of an out-of-range value v at cell (r, c) (0-based) in a scan
\* ("row", "column" or "block") of unit idx
InvalidReason(scan, idx, v, r, c) ==
    IF scan = "block"
    THEN Reason("Invalid number %d in 3x3 block %d at row %d col %d",
                <<v, idx + 1, r + 1, c + 1>>)
    ELSE Reason("Invalid number %d at row %d col %d", <<v, r + 1, c + 1>>)

\* faulty variant: the unit is named by its 0-based index
DuplicateReasonZeroBased(scan, idx, v) ==
    IF scan = "row" THEN Reason("Duplicate %d in row %d", <<v, idx>>)
    ELSE IF scan = "column"
    THEN Reason("Duplicate %d in column %d", <<v, idx>>)
    ELSE Reason("Duplicate %d in 3x3 block %d (top-left row %d col %d)",
                <<v, idx, (idx \div B) * B + 1, (idx % B) * B + 1>>)

\* the reason of a value v seen twice in unit idx of a scan
DuplicateReason(scan, idx, v) ==
    IF scan = "row" THEN Reason("Duplicate %d in row %d", <<v, idx + 1>>)
    ELSE IF scan = "column"
    THEN Reason("Duplicate %d in column %d", <<v, idx + 1>>)
    ELSE Reason("Duplicate %d in 3x3 block %d (top-left row %d col %d)",
                <<v, idx + 1, (idx \div B) * B + 1, (idx % B) * B + 1>>)

\* the cells (0-based <<r, c>>) of unit idx in the order the scan visits them
UnitCells(scan, idx) ==
    IF scan = "row" THEN [k \in 1..N |-> <<idx, k - 1>>]
    ELSE IF scan = "column" THEN [k \in 1..N |-> <<k - 1, idx>>]
    ELSE [k \in 1..N |-> <<(idx \div B) * B + ((k - 1) \div B),
                           (idx % B) * B + ((k - 1) % B)>>]

\* faulty variant: the range test lets a zero through (v < 0 for v <= 0)
RECURSIVE ScanUnitZeroOk(_, _, _, _, _)
ScanUnitZeroOk(b, scan, idx, k, seen) ==
    IF k > N THEN NoFault
    ELSE LET rc == UnitCells(scan, idx)[k]
             v == b[rc[1] + 1][rc[2] + 1]
         IN  IF v < 0 \/ v > N THEN InvalidReason(scan, idx, v, rc[1], rc[2])
             ELSE IF v \in seen THEN DuplicateReason(scan, idx, v)
             ELSE ScanUnitZeroOk(b, scan, idx, k + 1, seen \cup {v})

\* the inner loop over one unit, from its k-th cell with seen[] = seen
RECURSIVE ScanUnit(_, _, _, _, _)
ScanUnit(b, scan, idx, k, seen) ==
    IF k > N THEN NoFault
    ELSE LET rc == UnitCells(scan, idx)[k]
             v == b[rc[1] + 1][rc[2] + 1]
         IN  IF v <= 0 \/ v > N THEN InvalidReason(scan, idx, v, rc[1], rc[2])
             ELSE IF v \in seen THEN DuplicateReason(scan, idx, v)
             ELSE ScanUnit(b, scan, idx, k + 1, seen \cup {v})

\* the outer loop of a scan: the first fault among units idx..8
RECURSIVE FirstFault(_, _, _)
FirstFault(b, scan, idx) ==
    IF idx >= N THEN NoFault
    ELSE LET f == ScanUnit(b, scan, idx, 1, {})
         IN  IF f # NoFault THEN f ELSE FirstFault(b, scan, idx + 1)

\* faulty variant: the 3x3 blocks are not checked
ValidateNoBlocks(b) ==
    LET rf == FirstFault(b, "row", 0)
    IN  IF rf # NoFault THEN <<FALSE, rf>>
        ELSE LET cf == FirstFault(b, "column", 0)
             IN  IF cf # NoFault THEN <<FALSE, cf>>
                 ELSE <<TRUE, Reason("OK", <<>>)>>

\* faulty variant: the columns are checked before the rows
ValidateColumnsFirst(b) ==
    LET cf == FirstFault(b, "column", 0)
    IN  IF cf # NoFault THEN <<FALSE, cf>>
        ELSE LET rf == FirstFault(b, "row", 0)
             IN  IF rf # NoFault THEN <<FALSE, rf>>
                 ELSE LET bf == FirstFault(b, "block", 0)
                      IN  IF bf # NoFault THEN <<FALSE, bf>>
                          ELSE <<TRUE, Reason("OK", <<>>)>>

\* validate_board_internal: <<return value, reason>>
validate_board_internal(b) ==
    LET rf == FirstFault(b, "row", 0)
    IN  IF rf # NoFault THEN <<FALSE, rf>>
        ELSE LET cf == FirstFault(b, "column", 0)
             IN  IF cf # NoFault THEN <<FALSE, cf>>
                 ELSE LET bf == FirstFault(b, "block", 0)
                      IN  IF bf # NoFault THEN <<FALSE, bf>>
                          ELSE <<TRUE, Reason("OK", <<>>)>>

(* ------------------------------- queue ---------------------------------- *)
\* the size of the per-thread arrays: the largest worker_count of a run
PoolMax == IF MaxWorkers > DefaultWorkers THEN MaxWorkers ELSE DefaultWorkers

\* the worker threads of this run: workers[0..worker_count-1] are threads 1..
Workers == 1..worker_count

\* the values atoi(argv[1]) takes in the runs explored, up to maxw; 0 also
\* stands for no argument at all, a run of DefaultWorkers workers, explored
\* when the bound on the pool admits it
ArgValues(maxw) == {n \in 0..maxw : n > 0 \/ DefaultWorkers <= maxw}

\* the queue's links as one value
Links(h, t, ns) == [head |-> h, tail |-> t, nodes |-> ns]

\* faulty variant: the new node is linked in front of the head
LinkAtHead(h, t, ns, n) ==
    IF t = NULL THEN Links(n, n, ns)
    ELSE Links(n, t, [ns EXCEPT ![n].next = h])

\* faulty variant: the tail pointer is not moved to the new node
LinkTailKeepTail(h, t, ns, n) ==
    IF t = NULL THEN Links(n, n, ns)
    ELSE Links(h, t, [ns EXCEPT ![t].next = n])

\* enqueue_task's linking of node n at the tail
LinkTail(h, t, ns, n) ==
    IF t = NULL THEN Links(n, n, ns)
    ELSE Links(h, n, [ns EXCEPT ![t].next = n])

\* faulty variant: the head pointer is not advanced
RemoveHeadStay(h, t, ns) == Links(h, t, ns)

\* dequeue_task's unlinking of the head node
RemoveHead(h, t, ns) ==
    LET nh == ns[h].next
    IN  Links(nh, IF nh = NULL THEN NULL ELSE t, ns)

\* faulty variant: the wait loop is missing
NeverWait(h) == FALSE

\* dequeue_task's loop condition: TRUE when the thread must wait
MustWait(h) == h = NULL

\* faulty variant: the signal is lost
SignalWakesNone(waiters) == {{}}

\* the sets of waiters one pthread_cond_signal may unblock
SignalWakes(waiters) ==
    IF waiters = {} THEN {{}} ELSE {{w} : w \in waiters}

\* faulty variant: one sentinel too many
SentinelCountLong == worker_count + 1

\* faulty variant: one sentinel too few
SentinelCountShort == worker_count - 1

\* the number of sentinels a shutdown sequence enqueues
SentinelCount == worker_count

\* faulty variant: the loop runs once more
MoreBoardsOffByOne(k) == k <= board_count + 1

\* the test of the submission loop: for (i = 1; i <= board_count; ++i)
MoreBoards(k) == k <= board_count

\* what is left of a node after free: nothing the program may rely on
FreedNode == [task |-> NULL, next |-> NULL, live |-> FALSE]

\* A pointer whose use is undefined: NULL, or memory already freed. A step
\* through NULL faults; a step through freed memory faults or goes on with
\* the stale contents.
BadNode(p) == p = NULL \/ ~nodes[p].live
BadTask(p) == p = NULL \/ heap[p].frees > 0

\* the node pointers reachable from p through next, in order (at most len)
RECURSIVE Chain(_, _, _)
Chain(ns, p, len) ==
    IF p = NULL \/ len = 0 THEN <<>>
    ELSE <<p>> \o Chain(ns, ns[p].next, len - 1)

\* the nodes now in the queue, head first
QueueNodes == Chain(nodes, head, Len(nodes))

\* the entries (task pointers, NULL for a sentinel) now in the queue
QueueEntries == [k \in 1..Len(QueueNodes) |-> nodes[QueueNodes[k]].task]

(* -------------------------------- Init ---------------------------------- *)
Init ==
    /\ worker_count = DefaultWorkers
    /\ workers = "null"
    /\ qstate = "uninit"
    /\ head = NULL
    /\ tail = NULL
    /\ nodes = <<>>
    /\ heap = <<>>
    /\ mutex = {}
    /\ mpc = "args"
    /\ i = 0
    /\ board_count = 0
    /\ board = Solved
    /\ task = NULL
    /\ arg = NULL
    /\ node = NULL
    /\ ret = "submit"
    /\ failed = FALSE
    /\ status = "running"
    /\ wpc = [w \in 1..PoolMax |-> "none"]
    /\ wnode = [w \in 1..PoolMax |-> NULL]
    /\ wtask = [w \in 1..PoolMax |-> NULL]
    /\ enqLog = <<>>
    /\ deqLog = <<>>
    /\ results = <<>>

\* the process is running: no thread takes a step after it ended
Running == status = "running"

\* return from main or exit(): the process ends with this status
Exit(code) == mpc' = "exited" /\ status' = code

\* a fault (SIGSEGV, abort) ends the process
Fault == status' = "killed"

(* -------------------------------- main ---------------------------------- *)
\* if (argc >= 2) { n = atoi(argv[1]); if (n > 0) worker_count = n; }
ParseArgs(maxw) ==
    /\ Running /\ mpc = "args"
    /\ \E n \in ArgValues(maxw) : worker_count' = IF n > 0 THEN n ELSE worker_count
    /\ mpc' = "queue_init"
    /\ UNCHANGED <<workers, qstate, queueVars, heap, mutex, mainLocals,
                   status, workerVars, history>>

\* queue_init(&queue)
queue_init ==
    /\ Running /\ mpc = "queue_init"
    /\ head' = NULL /\ tail' = NULL
    /\ qstate' = "ready"
    /\ mpc' = "malloc_workers"
    /\ UNCHANGED <<worker_count, workers, nodes, heap, mutex, mainLocals,
                   status, workerVars, history>>

\* workers = malloc(...); if (!workers) return 1;
MallocWorkers ==
    /\ Running /\ mpc = "malloc_workers"
    /\ \/ workers' = "alloc" /\ mpc' = "create" /\ i' = 0 /\ status' = status
       \/ Exit("exit 1") /\ UNCHANGED <<workers, i>>
    /\ UNCHANGED <<worker_count, qstate, queueVars, heap, mutex, board_count,
                   board, task, arg, node, ret, failed, workerVars, history>>

\* for (i = 0; i < worker_count; ++i) pthread_create(&workers[i], ...)
CreateWorkers ==
    /\ Running /\ mpc = "create"
    /\ IF i < worker_count
       THEN \/ /\ wpc' = [wpc EXCEPT ![i + 1] = "lock"]
               /\ i' = i + 1
               /\ UNCHANGED <<mpc, status>>
            \/ Exit("exit 1") /\ UNCHANGED <<wpc, i>>
       ELSE mpc' = "ask" /\ UNCHANGED <<wpc, i, status>>
    /\ UNCHANGED <<worker_count, workers, qstate, queueVars, heap, mutex,
                   board_count, board, task, arg, node, ret, failed, wnode,
                   wtask, history>>

\* the lines typed at the board-count prompt: end of input, an empty line,
\* a number up to maxb (0 stands for every line the loop rejects)
CountLines(maxb) ==
    {[kind |-> k, v |-> 0] : k \in {"eof", "empty"}}
    \cup {[kind |-> "int", v |-> v] : v \in 0..maxb}

\* while (1) { fgets; ...; board_count = (int)v; break; }
AskBoardCount(maxb) ==
    /\ Running /\ mpc = "ask"
    /\ \E line \in CountLines(maxb) :
         IF line.kind = "eof"
         THEN Exit("exit 1") /\ UNCHANGED <<board_count, i>>
         ELSE IF line.kind = "empty" \/ line.v <= 0
         THEN UNCHANGED <<mpc, status, board_count, i>>
         ELSE /\ board_count' = line.v
              /\ i' = 1
              /\ mpc' = "submit"
              /\ status' = status
    /\ UNCHANGED <<worker_count, workers, qstate, queueVars, heap, mutex,
                   board, task, arg, node, ret, failed, workerVars, history>>

\* a fresh node of enqueue_task: node->task = t; node->next = NULL;
NewNode(t) == [task |-> t, next |-> NULL, live |-> TRUE]

\* for (i = 1; i <= board_count; ++i) { ... } up to enqueue_task's lock: the
\* loop test, read_board_from_stdin (a board, or FALSE at end of input),
\* task = malloc(...) (or exit(1)), task->id = i, memcpy(task->board, ...),
\* and enqueue_task's node = malloc(...) (or exit(1)), node->task = task,
\* node->next = NULL. All of it is local to main.
SubmitBoard ==
    /\ Running /\ mpc = "submit"
    /\ IF MoreBoards(i)
       THEN \/ \E b \in PoolBoards(i) :
                 /\ board' = b
                 /\ heap' = Append(heap, [id |-> i, board |-> b, frees |-> 0])
                 /\ task' = Len(heap) + 1
                 /\ arg' = Len(heap) + 1
                 /\ nodes' = Append(nodes, NewNode(Len(heap) + 1))
                 /\ node' = Len(nodes) + 1
                 /\ ret' = "submit"
                 /\ mpc' = "e_lock"
                 /\ UNCHANGED <<i, failed, status>>
            \/ /\ failed' = TRUE
               /\ i' = 0
               /\ mpc' = "sentinels"
               /\ UNCHANGED <<board, heap, task, arg, nodes, node, ret, status>>
            \/ /\ Exit("exit 1")
               /\ UNCHANGED <<board, heap, task, arg, nodes, node, ret, i,
                              failed>>
       ELSE /\ mpc' = "sentinels"
            /\ i' = 0
            /\ UNCHANGED <<board, heap, task, arg, nodes, node, ret, failed,
                           status>>
    /\ UNCHANGED <<worker_count, workers, qstate, head, tail, mutex,
                   board_count, workerVars, history>>

\* faulty variant: the lock does not wait for the holder
LockAtOnce(t) == TRUE

\* pthread_mutex_lock succeeds for thread t only when no thread holds the mutex
CanLock(t) == mutex = {}

\* enqueue_task: pthread_mutex_lock(&q->mutex)
EnqLock ==
    /\ Running /\ mpc = "e_lock"
    /\ CanLock(MainThread)
    /\ mutex' = mutex \cup {MainThread}
    /\ mpc' = "e_append"
    /\ UNCHANGED <<worker_count, workers, qstate, queueVars, heap, mainLocals,
                   status, workerVars, history>>

\* enqueue_task: if (q->tail == NULL) ... else ... (the append)
EnqAppend ==
    /\ Running /\ mpc = "e_append"
    /\ \/ /\ LET l == LinkTail(head, tail, nodes, node)
             IN  head' = l.head /\ tail' = l.tail /\ nodes' = l.nodes
          /\ enqLog' = Append(enqLog, [node |-> node, task |-> nodes[node].task])
          /\ mpc' = "e_signal"
          /\ status' = status
       \/ /\ tail # NULL /\ BadNode(tail)
          /\ Fault
          /\ UNCHANGED <<head, tail, nodes, enqLog, mpc>>
    /\ UNCHANGED <<worker_count, workers, qstate, heap, mutex, mainLocals,
                   workerVars, deqLog, results>>

\* the workers blocked in pthread_cond_wait
Waiters == {w \in Workers : wpc[w] = "wait"}

\* enqueue_task: pthread_cond_signal(&q->cond)
EnqSignal ==
    /\ Running /\ mpc = "e_signal"
    /\ \E S \in SignalWakes(Waiters) :
         wpc' = [w \in DOMAIN wpc |-> IF w \in S THEN "lock" ELSE wpc[w]]
    /\ mpc' = "e_unlock"
    /\ UNCHANGED <<worker_count, workers, qstate, queueVars, heap, mutex,
                   mainLocals, status, wnode, wtask, history>>

\* enqueue_task: pthread_mutex_unlock(&q->mutex); return; and the caller's ++i
EnqUnlock ==
    /\ Running /\ mpc = "e_unlock"
    /\ mutex' = mutex \ {MainThread}
    /\ i' = i + 1
    /\ mpc' = ret
    /\ UNCHANGED <<worker_count, workers, qstate, queueVars, heap,
                   board_count, board, task, arg, node, ret, failed, status,
                   workerVars, history>>

\* for (w = 0; w < worker_count; ++w) enqueue_task(&queue, NULL); on the
\* normal path (lines 288-290) and the failure path (line 274), up to
\* enqueue_task's lock: the loop test and node = malloc(...) (or exit(1)),
\* node->task = NULL, node->next = NULL
EnqueueSentinels ==
    /\ Running /\ mpc = "sentinels"
    /\ IF i < SentinelCount
       THEN \/ /\ arg' = NULL
               /\ nodes' = Append(nodes, NewNode(NULL))
               /\ node' = Len(nodes) + 1
               /\ ret' = "sentinels"
               /\ mpc' = "e_lock"
               /\ UNCHANGED <<i, status>>
            \/ Exit("exit 1") /\ UNCHANGED <<arg, nodes, node, ret, i>>
       ELSE /\ mpc' = "join"
            /\ i' = 0
            /\ UNCHANGED <<arg, nodes, node, ret, status>>
    /\ UNCHANGED <<worker_count, workers, qstate, head, tail, heap, mutex,
                   board_count, board, task, failed, workerVars, history>>

\* faulty variant: the join does not wait for the thread
JoinableAtOnce(k) == wpc[k + 1] # "none"

\* pthread_join(workers[k], NULL) returns once thread k+1 has returned
Joinable(k) == wpc[k + 1] = "done"

\* for (i = 0; i < worker_count; ++i) pthread_join(workers[i], NULL);
JoinWorkers ==
    /\ Running /\ mpc = "join"
    /\ IF i < worker_count
       THEN Joinable(i) /\ i' = i + 1 /\ mpc' = mpc
       ELSE mpc' = "free_workers" /\ i' = i
    /\ UNCHANGED <<worker_count, workers, qstate, queueVars, heap, mutex,
                   board_count, board, task, arg, node, ret, failed, status,
                   workerVars, history>>

\* free(workers)
FreeWorkers ==
    /\ Running /\ mpc = "free_workers"
    /\ workers' = "freed"
    /\ mpc' = "destroy"
    /\ UNCHANGED <<worker_count, qstate, queueVars, heap, mutex, mainLocals,
                   status, workerVars, history>>

\* queue_destroy(&queue)
queue_destroy ==
    /\ Running /\ mpc = "destroy"
    /\ qstate' = "destroyed"
    /\ mpc' = "finish"
    /\ UNCHANGED <<worker_count, workers, queueVars, heap, mutex, mainLocals,
                   status, workerVars, history>>

\* return 1 (failure path) or printf("All tasks completed..."); return 0
Finish ==
    /\ Running /\ mpc = "finish"
    /\ Exit(IF failed THEN "exit 1" ELSE "exit 0")
    /\ UNCHANGED <<worker_count, workers, qstate, queueVars, heap, mutex,
                   mainLocals, workerVars, history>>

\* the steps of main, its input within the bounds maxw and maxb
Main(maxw, maxb) ==
    \/ ParseArgs(maxw) \/ queue_init \/ MallocWorkers \/ CreateWorkers
    \/ AskBoardCount(maxb) \/ SubmitBoard
    \/ EnqLock \/ EnqAppend \/ EnqSignal \/ EnqUnlock
    \/ EnqueueSentinels \/ JoinWorkers \/ FreeWorkers \/ queue_destroy
    \/ Finish

(* ------------------------------- workers -------------------------------- *)
\* dequeue_task: pthread_mutex_lock(&q->mutex), and the same lock taken
\* inside pthread_cond_wait by a thread that was unblocked: both lead to the
\* loop test
DeqLock(w) ==
    /\ Running /\ wpc[w] = "lock"
    /\ CanLock(w)
    /\ mutex' = mutex \cup {w}
    /\ wpc' = [wpc EXCEPT ![w] = "check"]
    /\ UNCHANGED <<worker_count, workers, qstate, queueVars, heap, mpc,
                   mainLocals, status, wnode, wtask, history>>

\* dequeue_task: while (q->head == NULL) pthread_cond_wait(...): the test, and
\* on an empty queue the atomic release of the mutex and block
DeqCheck(w) ==
    /\ Running /\ wpc[w] = "check"
    /\ IF MustWait(head)
       THEN /\ mutex' = mutex \ {w}
            /\ wpc' = [wpc EXCEPT ![w] = "wait"]
       ELSE /\ wpc' = [wpc EXCEPT ![w] = "take"]
            /\ mutex' = mutex
    /\ UNCHANGED <<worker_count, workers, qstate, queueVars, heap, mpc,
                   mainLocals, status, wnode, wtask, history>>

\* pthread_cond_wait may be unblocked without any signal (a spurious wakeup)
SpuriousWakeup(w) ==
    /\ Running /\ wpc[w] = "wait"
    /\ wpc' = [wpc EXCEPT ![w] = "lock"]
    /\ UNCHANGED <<worker_count, workers, qstate, queueVars, heap, mutex, mpc,
                   mainLocals, status, wnode, wtask, history>>

\* dequeue_task: node = q->head; q->head = node->next;
\* if (q->head == NULL) q->tail = NULL;
DeqTake(w) ==
    /\ Running /\ wpc[w] = "take"
    /\ \/ /\ head # NULL
          /\ wnode' = [wnode EXCEPT ![w] = head]
          /\ LET l == RemoveHead(head, tail, nodes)
             IN  head' = l.head /\ tail' = l.tail /\ nodes' = l.nodes
          /\ deqLog' = Append(deqLog, [node |-> head, task |-> nodes[head].task,
                                       by |-> w])
          /\ wpc' = [wpc EXCEPT ![w] = "unlock"]
          /\ status' = status
       \/ /\ BadNode(head)
          /\ Fault
          /\ UNCHANGED <<wnode, head, tail, nodes, deqLog, wpc>>
    /\ UNCHANGED <<worker_count, workers, qstate, heap, mutex, mpc,
                   mainLocals, wtask, enqLog, results>>

\* faulty variant: the NULL test is missing
NoSentinelTest(t) == FALSE

\* worker_loop's test of the dequeued entry: TRUE when the worker leaves
IsSentinel(t) == t = NULL

\* dequeue_task: pthread_mutex_unlock(&q->mutex); task = node->task;
\* free(node); return task; and worker_loop: if (task == NULL) break; ...
\* return NULL;
DeqReturn(w) ==
    /\ Running /\ wpc[w] = "unlock"
    /\ \/ /\ wnode[w] # NULL
          /\ mutex' = mutex \ {w}
          /\ LET t == nodes[wnode[w]].task
             IN  /\ wtask' = [wtask EXCEPT ![w] = t]
                 /\ wpc' = [wpc EXCEPT ![w] = IF IsSentinel(t) THEN "done"
                                                               ELSE "validate"]
          /\ nodes' = [nodes EXCEPT ![wnode[w]] = FreedNode]
          /\ status' = status
       \/ /\ BadNode(wnode[w])
          /\ Fault
          /\ UNCHANGED <<mutex, wtask, wpc, nodes>>
    /\ UNCHANGED <<worker_count, workers, qstate, head, tail, heap, mpc,
                   mainLocals, wnode, history>>

\* the line a worker prints for task pointer t
ResultLine(t) ==
    LET v == validate_board_internal(BoardOf(heap[t].board))
    IN  [id |-> heap[t].id, ok |-> v[1],
         reason |-> IF v[1] THEN Reason("", <<>>) ELSE v[2]]

\* worker_loop: ok = validate_board_internal(...); printf(VALID / INVALID)
Validate(w) ==
    /\ Running /\ wpc[w] = "validate"
    /\ \/ /\ results' = Append(results, ResultLine(wtask[w]))
          /\ wpc' = [wpc EXCEPT ![w] = "free"]
          /\ status' = status
       \/ /\ BadTask(wtask[w])
          /\ Fault
          /\ UNCHANGED <<results, wpc>>
    /\ UNCHANGED <<worker_count, workers, qstate, queueVars, heap, mutex, mpc,
                   mainLocals, wnode, wtask, enqLog, deqLog>>

\* faulty variant: the task of a board found invalid is not freed
ReleaseValidOnly(h, t) ==
    IF validate_board_internal(BoardOf(h[t].board))[1]
    THEN [h EXCEPT ![t].frees = @ + 1]
    ELSE h

\* the task heap after free(t)
Release(h, t) == [h EXCEPT ![t].frees = @ + 1]

\* worker_loop: free(task); and back to the top of the loop
FreeTask(w) ==
    /\ Running /\ wpc[w] = "free"
    /\ \/ /\ heap' = Release(heap, wtask[w])
          /\ wpc' = [wpc EXCEPT ![w] = "lock"]
          /\ status' = status
       \/ /\ BadTask(wtask[w])
          /\ Fault
          /\ UNCHANGED <<heap, wpc>>
    /\ UNCHANGED <<worker_count, workers, qstate, queueVars, mutex, mpc,
                   mainLocals, wnode, wtask, history>>

Worker(w) ==
    \/ DeqLock(w) \/ DeqCheck(w) \/ DeqTake(w)
    \/ DeqReturn(w) \/ Validate(w) \/ FreeTask(w)

(* ------------------------------ behaviours ------------------------------ *)
Next ==
    \/ Main(MaxWorkers, MaxBoards)
    \/ \E w \in Workers : Worker(w)
    \/ \E w \in Workers : SpuriousWakeup(w)

Spec == Init /\ [][Next]_vars

\* the same program on the inputs explored under fair scheduling
LiveNext ==
    \/ Main(LiveWorkers, LiveBoards)
    \/ \E w \in Workers : Worker(w)
    \/ \E w \in Workers : SpuriousWakeup(w)

\* a step of the program proper: of main or of a worker, spurious wakeups
\* (which may happen, but which nothing promises) left out
Step == Main(LiveWorkers, LiveBoards) \/ \E w \in 1..PoolMax : Worker(w)

\* Fair scheduling, in its weakest form: as long as some thread can take a
\* step, some thread takes one. Every scheduler that is fair to each thread
\* is fair in this sense.
FairSpec == Init /\ [][LiveNext]_vars /\ WF_vars(Step)

(* ------------------------------ properties ------------------------------ *)
\* the ids of the results printed so far, and how often id k was printed
ResultIds == {results[k].id : k \in 1..Len(results)}
TimesPrinted(id) == Cardinality({k \in 1..Len(results) : results[k].id = id})

\* the last pthread_join of the normal path (lines 293-295) has returned
AllJoined ==
    /\ ~failed
    /\ \/ mpc = "join" /\ i >= worker_count
       \/ mpc \in {"free_workers", "destroy", "finish"}
       \/ mpc = "exited" /\ status = "exit 0"

\* the workers that removed a task (not a sentinel) from the queue
TaskTakers == {deqLog[k].by : k \in {j \in 1..Len(deqLog) : deqLog[j].task # NULL}}

\* C1 (completeness): no task id is ever printed twice, every printed id is
\* one of 1..board_count, and once the last pthread_join of a run that read
\* all its boards has returned, every id 1..board_count has exactly one
\* result.
C1_Completeness ==
    /\ \A k \in 1..Len(results) : TimesPrinted(results[k].id) = 1
    /\ ResultIds \subseteq 1..board_count
    /\ AllJoined => /\ ResultIds = 1..board_count
                    /\ Len(results) = board_count

\* a run of two workers that read two boards has joined every worker, and
\* each worker validated one of the boards
C1_Witness ==
    /\ AllJoined /\ mpc = "exited"
    /\ worker_count = 2 /\ board_count = 2
    /\ Cardinality(TaskTakers) = 2

\* the entries of a log without the name of the thread
Entry(e) == [node |-> e.node, task |-> e.task]

\* C2 (strict FIFO): the entries removed so far, in order of removal, are
\* the first entries appended, in order of append; the entries still queued
\* are the rest, in the same order.
C2_StrictFifo ==
    /\ Len(deqLog) <= Len(enqLog)
    /\ \A k \in 1..Len(deqLog) : Entry(deqLog[k]) = enqLog[k]
    /\ QueueNodes = [k \in 1..(Len(enqLog) - Len(deqLog)) |->
                         enqLog[Len(deqLog) + k].node]

\* two entries were removed by two different workers while two more wait
\* in the queue
C2_Witness ==
    /\ Len(deqLog) >= 2
    /\ deqLog[1].by # deqLog[2].by
    /\ Len(QueueNodes) >= 2

\* worker w is blocked in pthread_cond_wait although the queue holds an entry
BlockedOnWork(w) == Running /\ wpc[w] = "wait" /\ head # NULL

\* C3 (no missed wakeup): under fair scheduling, while the process runs,
\* again and again every entry appended so far has been removed and no
\* worker is blocked in pthread_cond_wait while the queue holds an entry: the
\* entries enqueued are all eventually dequeued, and no worker stays blocked
\* forever on a non-empty queue.
C3_NoMissedWakeup ==
    []<>(\/ ~Running
         \/ /\ Len(deqLog) = Len(enqLog)
            /\ \A w \in 1..PoolMax : ~BlockedOnWork(w))

\* main has appended an entry and is about to signal while two workers are
\* blocked on the queue
C3_Witness ==
    /\ mpc = "e_signal"
    /\ Cardinality(Waiters) = 2
    /\ head # NULL

\* the sentinels worker w has removed from the queue
SentinelsOf(w) == {k \in 1..Len(deqLog) : deqLog[k].by = w /\ deqLog[k].task = NULL}

\* C4 (exactly-once termination): under fair scheduling, once main has
\* enqueued its worker_count sentinels every worker returns from
\* worker_loop; a worker that has returned stays so, it returns only having
\* removed a sentinel, and no worker ever removes more than one sentinel.
C4_ExactlyOnceTermination ==
    /\ (mpc = "join") ~> (\A w \in Workers : wpc[w] = "done")
    /\ [][\A w \in 1..PoolMax : wpc[w] = "done" => wpc'[w] = "done"]_vars
    /\ [](\A w \in 1..PoolMax :
             /\ Cardinality(SentinelsOf(w)) <= 1
             /\ wpc[w] = "done" => Cardinality(SentinelsOf(w)) = 1
             /\ Cardinality(SentinelsOf(w)) = 1 => wpc[w] \in {"unlock", "done"})

\* both workers of a pool of two have returned, each after one sentinel, and
\* the board of the run was validated before
C4_Witness ==
    /\ worker_count = 2
    /\ \A w \in Workers : wpc[w] = "done" /\ Cardinality(SentinelsOf(w)) = 1
    /\ Len(results) = 1

\* the position of node n in the order of append (0 when not appended)
EnqPos(n) ==
    IF \E j \in 1..Len(enqLog) : enqLog[j].node = n
    THEN CHOOSE j \in 1..Len(enqLog) : enqLog[j].node = n
    ELSE 0

\* C5 (FIFO at shutdown): whenever a worker has removed a sentinel, every
\* task entry that main appended before that sentinel was removed from the
\* queue before it.
C5_SentinelAfterTasks ==
    \A k \in 1..Len(deqLog) :
        deqLog[k].task = NULL =>
            \A j \in 1..Len(enqLog) :
                (enqLog[j].task # NULL /\ j < EnqPos(deqLog[k].node)) =>
                    \E m \in 1..(k - 1) : deqLog[m].node = enqLog[j].node

\* a sentinel was removed by one of two workers after the run's two tasks
C5_Witness ==
    /\ worker_count = 2
    /\ \E k \in 3..Len(deqLog) :
          /\ deqLog[k].task = NULL
          /\ deqLog[1].task # NULL /\ deqLog[2].task # NULL

\* the nodes removed from the queue so far
RemovedNodes == {deqLog[k].node : k \in 1..Len(deqLog)}
\* the nodes linked in the queue now
QueuedNodes == {QueueNodes[k] : k \in 1..Len(QueueNodes)}

\* C6 (every entry removed exactly once): no node is removed from the queue
\* twice, every appended node is either still linked in the queue or was
\* removed (never both, never neither), and when queue_destroy is called the
\* queue is empty and every appended entry has been removed.
C6_EveryEntryOnce ==
    /\ \A a, b \in 1..Len(deqLog) : a # b => deqLog[a].node # deqLog[b].node
    /\ RemovedNodes \cup QueuedNodes = {enqLog[k].node : k \in 1..Len(enqLog)}
    /\ RemovedNodes \cap QueuedNodes = {}
    /\ mpc \in {"destroy", "finish"} =>
          /\ head = NULL /\ tail = NULL
          /\ Len(deqLog) = Len(enqLog)

\* queue_destroy is about to be called on the normal path of a run that
\* enqueued two tasks and two sentinels
C6_Witness ==
    /\ mpc = "destroy" /\ ~failed
    /\ Len(enqLog) = 4
    /\ worker_count = 2

\* the number of task entries main has appended
TasksEnqueued == Cardinality({k \in 1..Len(enqLog) : enqLog[k].task # NULL})

\* a shutdown sequence (normal or read-failure path) has enqueued its last
\* sentinel
SentinelsDone ==
    \/ mpc \in {"join", "free_workers", "destroy", "finish"}
    \/ mpc = "exited" /\ workers = "freed"

\* C7 (shape of the enqueue sequence): the entries main has appended are
\* k <= board_count tasks, with ids 1..k in this order, followed by at most
\* worker_count sentinels, exactly worker_count once a shutdown sequence
\* has run; no task follows a sentinel.
C7_EnqueueShape ==
    /\ TasksEnqueued <= board_count
    /\ \A j \in 1..Len(enqLog) :
          IF j <= TasksEnqueued
          THEN enqLog[j].task # NULL /\ heap[enqLog[j].task].id = j
          ELSE enqLog[j].task = NULL
    /\ Len(enqLog) - TasksEnqueued <= worker_count
    /\ SentinelsDone => Len(enqLog) - TasksEnqueued = worker_count

\* the read of the second of two boards failed: one task, then the two
\* sentinels of the failure path
C7_Witness ==
    /\ failed /\ mpc = "join"
    /\ board_count = 2 /\ worker_count = 2
    /\ TasksEnqueued = 1 /\ Len(enqLog) = 3

\* C8 (lifecycle ordering): a worker thread exists only after queue_init;
\* the workers array is freed and the queue destroyed only after every one
\* of the worker_count workers has returned from worker_loop (and main is
\* past its joins); a worker that has not returned never sees a destroyed
\* queue.
C8_Lifecycle ==
    /\ (\E w \in 1..PoolMax : wpc[w] # "none") => qstate # "uninit"
    /\ (workers = "freed" \/ qstate = "destroyed") =>
          /\ \A w \in Workers : wpc[w] = "done"
          /\ mpc \in {"destroy", "finish", "exited"}
    /\ \A w \in 1..PoolMax : wpc[w] \notin {"none", "done"} => qstate = "ready"

\* the queue of a pool of two workers that validated a board is destroyed
C8_Witness ==
    /\ qstate = "destroyed"
    /\ worker_count = 2
    /\ Len(results) >= 1

\* worker w removed task pointer t from the queue
Dequeued(w, t) == \E k \in 1..Len(deqLog) : deqLog[k].task = t /\ deqLog[k].by = w

\* a shutdown sequence has returned: every pthread_join is done
ShutdownReturned ==
    \/ mpc = "join" /\ i >= worker_count
    \/ mpc \in {"free_workers", "destroy", "finish"}
    \/ mpc = "exited" /\ workers = "freed"

\* C9 (release exactly once): no task is freed twice; a task is freed only
\* after its result was printed, and the worker about to free it is the one
\* that removed it from the queue; once the shutdown sequence has returned
\* every task main allocated has been freed.
C9_ReleaseOnce ==
    /\ \A t \in 1..Len(heap) :
          /\ heap[t].frees <= 1
          /\ heap[t].frees = 1 => TimesPrinted(heap[t].id) = 1
    /\ \A w \in Workers :
          wpc[w] = "free" => /\ Dequeued(w, wtask[w])
                             /\ TimesPrinted(heap[wtask[w]].id) = 1
                             /\ heap[wtask[w]].frees = 0
    /\ ShutdownReturned => \A t \in 1..Len(heap) : heap[t].frees = 1

\* main has returned 0 from a run of two workers and two boards, both freed
C9_Witness ==
    /\ mpc = "exited" /\ status = "exit 0"
    /\ worker_count = 2
    /\ Len(heap) = 2
    /\ \A t \in 1..Len(heap) : heap[t].frees = 1

\* worker w holds task pointer t: in the node it unlinked, or in its local
\* task until free
Holds(w, t) ==
    \/ wpc[w] = "unlock" /\ wnode[w] # NULL /\ nodes[wnode[w]].task = t
    \/ wpc[w] \in {"validate", "free"} /\ wtask[w] = t

\* the parties that hold task pointer t: main (inside enqueue_task, before
\* the node is linked), the queue, the workers
Owners(t) ==
    {<<"main", MainThread>> : x \in {y \in {1} :
          mpc \in {"e_lock", "e_append"} /\ arg = t}}
    \cup {<<"queue", NULL>> : x \in {y \in {1} :
          \E k \in 1..Len(QueueEntries) : QueueEntries[k] = t}}
    \cup {<<"worker", w>> : w \in {v \in Workers : Holds(v, t)}}

\* C10 (exclusive ownership): while the process runs every task not yet
\* freed has exactly one owner (main until the node that carries it is
\* linked, then the queue, then one worker) and a freed task has none; no
\* task pointer is removed from the queue twice; and the only step that
\* changes a task once it is allocated is the free by the worker holding it
\* (main never writes a task it has enqueued).
C10_ExclusiveOwnership ==
    /\ [](Running =>
            \A t \in 1..Len(heap) :
                Cardinality(Owners(t)) = IF heap[t].frees = 0 THEN 1 ELSE 0)
    /\ [](\A a, b \in 1..Len(deqLog) :
            (a # b /\ deqLog[a].task # NULL) => deqLog[a].task # deqLog[b].task)
    /\ [][\A t \in 1..Len(heap) :
            heap'[t] # heap[t] =>
                \E w \in Workers : wpc[w] = "free" /\ wtask[w] = t]_vars

\* two workers hold two different tasks at the same time
C10_Witness ==
    /\ Running
    /\ \E w1, w2 \in Workers : \E t1, t2 \in 1..Len(heap) :
          /\ w1 # w2 /\ t1 # t2
          /\ Holds(w1, t1) /\ Holds(w2, t2)
          /\ Owners(t1) = {<<"worker", w1>>}
          /\ Owners(t2) = {<<"worker", w2>>}


\* the process ended with status 1 after the pthread_create loop had created
\* every worker: a fatal error at the board-count prompt, in the submission
\* loop or in enqueue_task, or the return of the read-failure path
FatalExitAfterStart ==
    /\ mpc = "exited" /\ status = "exit 1"
    /\ \A w \in Workers : wpc[w] # "none"

\* C11 (fatal-error shutdown): when the process exits on a fatal error after
\* the workers were created, the shutdown protocol has run: worker_count
\* sentinels were enqueued and every worker has returned from worker_loop
\* (was joined), so none is left blocked on the queue.
C11_FatalErrorShutdown ==
    FatalExitAfterStart =>
        /\ Cardinality({k \in 1..Len(enqLog) : enqLog[k].task = NULL})
               = worker_count
        /\ \A w \in Workers : wpc[w] = "done"


(* ------------------------ the validator on its own ----------------------- *)
\* the edits that exchange rows a and b (1-based) of the solved grid
SwapRows(a, b) ==
    [k \in 1..(2 * N) |->
        IF k <= N THEN <<a, k, SolvedBoard[b][k]>>
        ELSE <<b, k - N, SolvedBoard[a][k - N]>>]

\* the edits that, after the edits base, exchange cells (r, c1) and (r, c2)
SwapCells(base, r, c1, c2) ==
    LET g == BoardOf(base)
    IN  base \o << <<r, c1, g[r][c2]>>, <<r, c2, g[r][c1]>> >>

\* the band (of rows) or stack (of columns) of index k (1-based)
Band(k) == (k - 1) \div B

\* valid boards: the solved grid, and the solved grid with two rows of one
\* band exchanged
ValidBases == {Solved, SwapRows(1, 2), SwapRows(5, 6)}

\* the values a cell of an input board takes
CellValues == (0 - 1)..MaxValue

\* The boards the validator is called on: the solved grid with one cell set
\* to any value; with two rows exchanged; a valid board with two cells of a
\* row exchanged; the solved grid with a zero in one cell and a second fault
\* (a duplicate in row 1, a value too large in the centre, a duplicate in
\* row 9).
TestBoards ==
    {<< <<r, c, v>> >> : r \in 1..N, c \in 1..N, v \in CellValues}
    \cup {SwapRows(d[1], d[2]) : d \in {e \in (1..N) \X (1..N) : e[1] < e[2]}}
    \cup {SwapCells(base, r, c[1], c[2]) :
            base \in ValidBases, r \in 1..N,
            c \in {d \in (1..N) \X (1..N) : d[1] < d[2]}}
    \cup {<< <<r, c, 0>>, e >> :
            r \in 1..N, c \in 1..N,
            e \in {<<1, 2, 5>>, <<5, 5, MaxValue + 1>>, <<9, 9, 3>>}}

\* main's board holds an input, nothing was validated yet
ValidatorInit ==
    /\ worker_count = DefaultWorkers
    /\ workers = "null"
    /\ qstate = "uninit"
    /\ head = NULL
    /\ tail = NULL
    /\ nodes = <<>>
    /\ heap = <<>>
    /\ mutex = {}
    /\ mpc = "args"
    /\ i = 0
    /\ board_count = 0
    /\ board \in TestBoards
    /\ task = NULL
    /\ arg = NULL
    /\ node = NULL
    /\ ret = "submit"
    /\ failed = FALSE
    /\ status = "running"
    /\ wpc = [w \in 1..PoolMax |-> "none"]
    /\ wnode = [w \in 1..PoolMax |-> NULL]
    /\ wtask = [w \in 1..PoolMax |-> NULL]
    /\ enqLog = <<>>
    /\ deqLog = <<>>
    /\ results = <<>>

\* bool ok = validate_board_internal(board, reason, sizeof(reason)): the
\* return value and the reason written, recorded as they are
CallValidator ==
    /\ results = <<>>
    /\ LET v == validate_board_internal(BoardOf(board))
       IN  results' = <<[id |-> 0, ok |-> v[1], reason |-> v[2]]>>
    /\ UNCHANGED <<worker_count, workers, qstate, queueVars, heap, mutex, mpc,
                   mainLocals, status, workerVars, enqLog, deqLog>>

ValidatorSpec == ValidatorInit /\ [][CallValidator]_vars

\* the validator has returned on the input board
Validated == results # <<>> /\ mpc = "args"
\* the grid it was called on, what it returned and the reason it wrote
Grid == BoardOf(board)
Ok == results[1].ok
Why == results[1].reason

\* the cells (1-based <<r, c>>) of the nine 3x3 blocks, block 1 top-left,
\* blocks numbered along the rows of blocks
BlockOf(u) ==
    {<<r, c>> \in (1..N) \X (1..N) : Band(r) * B + Band(c) + 1 = u}

\* every row, every column and every 3x3 block of grid g holds each of 1..9
\* (nine cells holding nine different values of 1..9 hold each exactly once)
IsSudoku(g) ==
    \A u \in 1..N :
        /\ {g[u][c] : c \in 1..N} = 1..N
        /\ {g[r][u] : r \in 1..N} = 1..N
        /\ {g[rc[1]][rc[2]] : rc \in BlockOf(u)} = 1..N

\* C12 (validator correctness): validate_board_internal returns true exactly
\* on the boards whose rows, columns and 3x3 blocks each hold every value
\* 1..9 once, and it writes the reason "OK" exactly when it returns true.
C12_ValidatorCorrect ==
    Validated =>
        /\ Ok <=> IsSudoku(Grid)
        /\ Ok <=> Why = Reason("OK", <<>>)

\* a valid board other than the solved grid was accepted
C12_Witness ==
    /\ Validated /\ Ok
    /\ Grid # SolvedBoard
    /\ IsSudoku(Grid)


\* The scan order in 1-based terms: scan 1 visits rows 1..9, each left to
\* right; scan 2 columns 1..9, each top to bottom; scan 3 blocks 1..9 (along
\* the rows of blocks), each along its rows. ScanCell is the k-th cell of
\* unit u of scan s, Rank its place in the whole order.
ScanCell(s, u, k) ==
    IF s = 1 THEN <<u, k>>
    ELSE IF s = 2 THEN <<k, u>>
    ELSE <<B * ((u - 1) \div B) + ((k - 1) \div B) + 1,
           B * ((u - 1) % B) + ((k - 1) % B) + 1>>

ScanValue(g, s, u, k) == g[ScanCell(s, u, k)[1]][ScanCell(s, u, k)[2]]

Rank(p) == (p[1] - 1) * N * N + (p[2] - 1) * N + p[3]

\* the places <<s, u, k>> of grid g that violate the rules: a value outside
\* 1..9, or a value already met earlier in the same unit
Violations(g) ==
    {p \in (1..3) \X (1..N) \X (1..N) :
        LET v == ScanValue(g, p[1], p[2], p[3])
        IN  \/ v \notin 1..N
            \/ \E j \in 1..(p[3] - 1) : ScanValue(g, p[1], p[2], j) = v}

\* the first of them in the scan order
FirstViolation(g) ==
    CHOOSE p \in Violations(g) : \A q \in Violations(g) : Rank(p) <= Rank(q)

\* the reason that names the violation at place p of grid g: the value, the
\* kind of fault, and the row and column (an invalid number) or the row,
\* column or block (a duplicate)
ReasonAt(g, p) ==
    LET v == ScanValue(g, p[1], p[2], p[3])
        rc == ScanCell(p[1], p[2], p[3])
    IN  IF v \notin 1..N
        THEN IF p[1] = 3
             THEN Reason("Invalid number %d in 3x3 block %d at row %d col %d",
                         <<v, p[2], rc[1], rc[2]>>)
             ELSE Reason("Invalid number %d at row %d col %d",
                         <<v, rc[1], rc[2]>>)
        ELSE IF p[1] = 1 THEN Reason("Duplicate %d in row %d", <<v, p[2]>>)
        ELSE IF p[1] = 2 THEN Reason("Duplicate %d in column %d", <<v, p[2]>>)
        ELSE Reason("Duplicate %d in 3x3 block %d (top-left row %d col %d)",
                    <<v, p[2], ScanCell(3, p[2], 1)[1], ScanCell(3, p[2], 1)[2]>>)

\* C13 (first fault wins): on every board with a violation,
\* validate_board_internal returns false and the reason it writes is the one
\* of the first violation in the scan order (rows, then columns, then
\* blocks): its value, its kind, and its 1-based row and column or unit.
C13_FirstFaultWins ==
    (Validated /\ Violations(Grid) # {}) =>
        /\ ~Ok
        /\ Why = ReasonAt(Grid, FirstViolation(Grid))

\* a board with valid rows and columns whose first violation is a duplicate
\* in a block after the first was rejected
C13_Witness ==
    /\ Validated /\ ~Ok
    /\ Violations(Grid) # {}
    /\ FirstViolation(Grid)[1] = 3
    /\ FirstViolation(Grid)[2] > 1


\* the cells of grid g that hold a zero, and the first of them by rows
Zeros(g) == {rc \in (1..N) \X (1..N) : g[rc[1]][rc[2]] = 0}
FirstZero(g) ==
    CHOOSE z \in Zeros(g) : \A y \in Zeros(g) : Rank(<<1, z[1], z[2]>>) <= Rank(<<1, y[1], y[2]>>)

\* the formats of the two kinds of reason
InvalidFormats ==
    {"Invalid number %d at row %d col %d",
     "Invalid number %d in 3x3 block %d at row %d col %d"}
DuplicateFormats ==
    {"Duplicate %d in row %d", "Duplicate %d in column %d",
     "Duplicate %d in 3x3 block %d (top-left row %d col %d)"}

\* the violations of grid g that the row scan meets before cell z
RowFaultsBefore(g, z) ==
    {p \in Violations(g) : Rank(p) < Rank(<<1, z[1], z[2]>>)}

\* C14 as stated (zero cell): on every board that holds a zero the validator
\* returns false with an "Invalid number" reason that carries the value 0 and
\* the row and column of a cell holding a zero, whatever else the board holds.
C14_ZeroCellAlways ==
    (Validated /\ Zeros(Grid) # {}) =>
        /\ ~Ok
        /\ Why.fmt = "Invalid number %d at row %d col %d"
        /\ Why.args[1] = 0
        /\ <<Why.args[2], Why.args[3]>> \in Zeros(Grid)

\* C14 as amended (zero cell): on every board that holds a zero the
\* validator returns false with a reason of the row scan; a reason that
\* carries the value 0 is an "Invalid number" reason, never a duplicate; and
\* when no duplicate and no other out-of-range value comes before the first
\* zero in the row scan, the reason is "Invalid number 0" at the row and
\* column of that zero. Otherwise the earlier fault is the one reported.
C14_ZeroCell ==
    (Validated /\ Zeros(Grid) # {}) =>
        LET z == FirstZero(Grid)
        IN  /\ ~Ok
            /\ Why.fmt \in {"Invalid number %d at row %d col %d",
                            "Duplicate %d in row %d"}
            /\ Why.fmt \in DuplicateFormats => Why.args[1] # 0
            /\ IF RowFaultsBefore(Grid, z) = {}
               THEN Why = Reason("Invalid number %d at row %d col %d",
                                 <<0, z[1], z[2]>>)
               ELSE Why = ReasonAt(Grid, FirstViolation(Grid)) /\ Why.args[1] # 0

\* a board with a zero and a later fault in the row scan was rejected for
\* the zero
C14_Witness ==
    /\ Validated /\ Zeros(Grid) # {}
    /\ \E p \in Violations(Grid) :
          /\ p[1] = 1
          /\ Rank(p) > Rank(<<1, FirstZero(Grid)[1], FirstZero(Grid)[2]>>)
    /\ Why.fmt \in InvalidFormats /\ Why.args[1] = 0


\* grid g with cells (r, c1) and (r, c2) exchanged
Exchanged(g, r, c1, c2) ==
    [g EXCEPT ![r][c1] = g[r][c2], ![r][c2] = g[r][c1]]

\* the ways <<r, c1, c2>> (c1 < c2) in which grid g is a valid board with two
\* different cells of row r exchanged
SwapsOf(g) ==
    {sw \in (1..N) \X (1..N) \X (1..N) :
        /\ sw[2] < sw[3]
        /\ g[sw[1]][sw[2]] # g[sw[1]][sw[3]]
        /\ {g[x][sw[2]] : x \in 1..N} # 1..N
        /\ IsSudoku(Exchanged(g, sw[1], sw[2], sw[3]))}

\* C15 as stated (swapped cells in a row): on a valid board with two cells of
\* one row exchanged the validator returns false and the reason is a
\* duplicate that names that row by its 1-based index.
C15_SwappedCellsNameRow ==
    Validated =>
        \A sw \in SwapsOf(Grid) :
            /\ ~Ok
            /\ Why.fmt = "Duplicate %d in row %d"
            /\ Why.args[2] = sw[1]

\* C15 as amended (swapped cells in a row): on a valid board with two cells
\* of one row exchanged the validator returns false and the reason is
\* "Duplicate v in column c": c is the 1-based index of the left one of the
\* two columns and v the value the exchange moved into it.
C15_SwappedCells ==
    Validated =>
        \A sw \in SwapsOf(Grid) :
            /\ ~Ok
            /\ Why = Reason("Duplicate %d in column %d",
                            <<Grid[sw[1]][sw[2]], sw[2]>>)

\* two cells of a row below the first, of a valid board other than the
\* solved grid, were exchanged and the board was rejected
C15_Witness ==
    /\ Validated /\ ~Ok
    /\ \E sw \in SwapsOf(Grid) :
          /\ sw[1] > 1
          /\ Exchanged(Grid, sw[1], sw[2], sw[3]) # SolvedBoard


\* what worker w removed last from the queue: "nothing", "task" or "sentinel"
LastTaken(w) ==
    LET mine == {k \in 1..Len(deqLog) : deqLog[k].by = w}
    IN  IF mine = {} THEN "nothing"
        ELSE LET last == CHOOSE k \in mine : \A j \in mine : j <= k
             IN  IF deqLog[last].task = NULL THEN "sentinel" ELSE "task"

\* the moves of worker w between positions of worker_loop and dequeue_task
WorkerMove(w) ==
    \/ wpc[w] = "none" /\ wpc'[w] = "lock"
    \/ wpc[w] = "lock" /\ wpc'[w] = "check"
    \/ wpc[w] = "check" /\ wpc'[w] \in {"wait", "take"}
    \/ wpc[w] = "wait" /\ wpc'[w] = "lock"
    \/ wpc[w] = "take" /\ wpc'[w] = "unlock" /\ Len(deqLog') = Len(deqLog) + 1
    \/ /\ wpc[w] = "unlock"
       /\ IF LastTaken(w) = "sentinel" THEN wpc'[w] = "done"
                                       ELSE wpc'[w] = "validate"
    \/ /\ wpc[w] = "validate" /\ wpc'[w] = "free"
       /\ Len(results') = Len(results) + 1
       /\ results'[Len(results')].id = heap[wtask[w]].id
    \/ /\ wpc[w] = "free" /\ wpc'[w] = "lock"
       /\ heap'[wtask[w]].frees = heap[wtask[w]].frees + 1

\* C16 (worker state machine): a worker moves only along dequeue (lock,
\* test, wait, take, unlock), then to Terminated exactly when the entry it
\* took is the sentinel and to validation otherwise; from validation, valid
\* or not, it emits one result, frees the task and is back at the lock of
\* dequeue_task; Terminated is final. So a worker has returned only if its
\* last entry was a sentinel, and a worker whose last entry was a sentinel
\* is returning or has returned: it dequeues nothing more.
C16_WorkerStateMachine ==
    /\ [][\A w \in 1..PoolMax : wpc'[w] # wpc[w] => WorkerMove(w)]_vars
    /\ [](\A w \in 1..PoolMax :
            /\ wpc[w] = "done" => LastTaken(w) = "sentinel"
            /\ LastTaken(w) = "sentinel" => wpc[w] \in {"unlock", "done"})

\* a worker took the task of the invalid board (board 2), reported it
\* INVALID, went on to take another entry and has returned
C16_Witness ==
    \E k, j \in 1..Len(deqLog) :
        /\ k < j
        /\ deqLog[k].by = deqLog[j].by
        /\ deqLog[k].task # NULL
        /\ heap[deqLog[k].task].id = 2
        /\ \E r \in 1..Len(results) : results[r].id = 2 /\ ~results[r].ok
        /\ wpc[deqLog[k].by] = "done"


\* thread t (MainThread or a worker) is at a place of enqueue_task or
\* dequeue_task between its lock and its unlock: the places that read or
\* write queue.head and queue.tail (lines 58-63, 70, 73-75) and the signal
InCritical(t) ==
    IF t = MainThread THEN mpc \in {"e_append", "e_signal", "e_unlock"}
    ELSE wpc[t] \in {"check", "take", "unlock"}

\* C17 (mutual exclusion on the queue state): at most one thread holds
\* queue.mutex; a thread is at a place that reads or writes head or tail only
\* while it holds the mutex, and holds it only there, so a worker blocked in
\* pthread_cond_wait does not hold it; and every step that changes head or
\* tail is the append of main or the removal of a worker, taken by the one
\* thread that holds the mutex and keeps it over the step.
C17_MutualExclusion ==
    /\ [](Cardinality(mutex) <= 1)
    /\ [](\A t \in {MainThread} \cup (1..PoolMax) : InCritical(t) <=> t \in mutex)
    /\ [](\A w \in 1..PoolMax : wpc[w] = "wait" => w \notin mutex)
    /\ [][<<head, tail>>' # <<head, tail>> =>
            /\ mutex' = mutex
            /\ \/ mutex = {MainThread} /\ mpc = "e_append" /\ mpc' = "e_signal"
               \/ \E w \in Workers :
                     mutex = {w} /\ wpc[w] = "take" /\ wpc'[w] = "unlock"]_vars

\* main waits for the mutex a worker holds while the other worker is blocked
\* in pthread_cond_wait without it
C17_Witness ==
    /\ mpc = "e_lock"
    /\ \E w1, w2 \in Workers :
          /\ mutex = {w1}
          /\ wpc[w1] = "take"
          /\ wpc[w2] = "wait"


\* C18 (never dequeue from an empty queue): a worker is past the wait loop of
\* dequeue_task only with head pointing to a node that is allocated, so no
\* step ever goes through a NULL or freed pointer (no fault); every entry
\* removed is an entry that was appended, and the task a worker validates or
\* frees is the one of the entry it removed last.
C18_NeverDequeueEmpty ==
    /\ status # "killed"
    /\ \A w \in 1..PoolMax :
          /\ wpc[w] = "take" => head # NULL /\ nodes[head].live
          /\ wpc[w] \in {"validate", "free"} =>
                \E k \in 1..Len(deqLog) :
                    /\ deqLog[k].by = w /\ deqLog[k].task = wtask[w]
                    /\ \A j \in (k + 1)..Len(deqLog) : deqLog[j].by # w
    /\ \A k \in 1..Len(deqLog) :
          \E j \in 1..Len(enqLog) : Entry(enqLog[j]) = Entry(deqLog[k])

\* a worker that has taken nothing yet is at the loop test, holding the
\* mutex, and finds the queue empty: the other worker has taken the only
\* entry appended so far
C18_Witness ==
    \E w1, w2 \in Workers :
        /\ w1 # w2
        /\ wpc[w1] = "check" /\ head = NULL
        /\ LastTaken(w1) = "nothing"
        /\ Len(enqLog) = 1 /\ Len(deqLog) = 1
        /\ deqLog[1].by = w2


\* C19 (read-failure path completes earlier work): once main, on the path
\* taken when a board could not be read, is past its joins, every task it
\* had enqueued before (boards 1..i-1, fewer than board_count) has exactly
\* one result printed and was freed once.
C19_ReadFailureCompletes ==
    (failed /\ ShutdownReturned) =>
        /\ Len(heap) < board_count
        /\ TasksEnqueued = Len(heap)
        /\ \A t \in 1..Len(heap) :
              /\ heap[t].id = t
              /\ TimesPrinted(t) = 1
              /\ heap[t].frees = 1

\* the read of board 2 failed after board 1 was enqueued, and main has
\* returned 1 at the end of the failure path with board 1 reported and freed
C19_Witness ==
    /\ failed /\ mpc = "exited" /\ workers = "freed"
    /\ Len(heap) = 1 /\ heap[1].frees = 1
    /\ Len(results) = 1


\* C20 (single-worker ordering): in a run with worker_count = 1 the results
\* are printed in the order of submission: the k-th line printed is the one
\* of task id k.
C20_SingleWorkerOrder ==
    (mpc # "args" /\ worker_count = 1) =>
        \A k \in 1..Len(results) : results[k].id = k

\* the single worker of a run has printed the results of two boards and has
\* taken its sentinel
C20_Witness ==
    /\ mpc # "args" /\ worker_count = 1
    /\ Len(results) = 2
    /\ \E k \in 1..Len(deqLog) : deqLog[k].by = 1 /\ deqLog[k].task = NULL

=============================================================================
